---- MODULE Spec2Model ----
(***************************************************************************)
(* Model of app/app.py: a Flask service holding two module-level booleans, *)
(* app_ready and app_alive, read by the probes /healthz and /failcheck and *)
(* flipped by /toggle-readiness and /toggle-liveness.                      *)
(*                                                                         *)
(* Requests are served by threads of one process.  A handler is cut into   *)
(* steps at every access to a global: "app_ready = not app_ready" is a     *)
(* load of the global followed by a store, and the two later uses of       *)
(* app_ready in toggle_readiness (lines 79 and 82) are two further loads.  *)
(* The pc labels are the source lines of app/app.py.                       *)
(* The timestamp of a probe body is fresh per request and is left out.     *)
(***************************************************************************)
EXTENDS Integers, Sequences, FiniteSets, TLC

\* Bounds of the model
NumThreads == 2
MaxRequests == 3

Threads == 1..NumThreads

Routes == {"/", "/healthz", "/failcheck", "/toggle-readiness", "/toggle-liveness"}

VARIABLES
    app_ready,    \* module global, line 21
    app_alive,    \* module global, line 22
    pc,           \* pc[t]: the line thread t executes next, "idle" between requests
    path,         \* path[t]: request.path of the request thread t serves
    stack,        \* stack[t]: the value of the global thread t loaded last
    status,       \* status[t]: the local variable status of the toggle handlers
    response,     \* response[t]: the last response thread t sent
    access_log,   \* the last line written by log_request
    requests,     \* number of requests accepted so far
    togglesR,     \* number of /toggle-readiness requests completed
    togglesL,     \* number of /toggle-liveness requests completed
    writesR,      \* number of stores to app_ready executed
    writesL,      \* number of stores to app_alive executed
    lastR,        \* the ready field of the last /toggle-readiness response, valid until the next store
    lastL,        \* the alive field of the last /toggle-liveness response, valid until the next store
    obs           \* obs[t]: what the request of thread t has observed so far

vars == <<app_ready, app_alive, pc, path, stack, status, response, access_log,
          requests, togglesR, togglesL, writesR, writesL, lastR, lastL, obs>>

flags == <<app_ready, app_alive>>
counters == <<togglesR, togglesL, writesR, writesL, lastR, lastL>>

----------------------------------------------------------------------------
\* Values at process start

InitialReady == TRUE

InitialAliveBroken == FALSE
InitialAlive == TRUE

\* read: the flag value a probe loaded; wrote: the value a toggle stored;
\* seen, seenFlag: the last toggle response standing when the probe loaded the flag;
\* from: the store counter when the request was accepted
NoObs == [read |-> FALSE, wrote |-> FALSE, seen |-> FALSE, seenFlag |-> FALSE, from |-> 0]

NoLast == [valid |-> FALSE, flag |-> FALSE]

NoResponse == [path |-> "none", code |-> 0, body |-> [none |-> TRUE],
               hist |-> NoObs, quiet |-> FALSE, at |-> 0]

NoLog == [path |-> "none", status_code |-> 0]

Init ==
    /\ app_ready = InitialReady
    /\ app_alive = InitialAlive
    /\ pc = [t \in Threads |-> "idle"]
    /\ path = [t \in Threads |-> "none"]
    /\ stack = [t \in Threads |-> FALSE]
    /\ status = [t \in Threads |-> ""]
    /\ response = [t \in Threads |-> NoResponse]
    /\ access_log = NoLog
    /\ requests = 0
    /\ togglesR = 0
    /\ togglesL = 0
    /\ writesR = 0
    /\ writesL = 0
    /\ lastR = NoLast
    /\ lastL = NoLast
    /\ obs = [t \in Threads |-> NoObs]

----------------------------------------------------------------------------
\* Routing: the first line of the view function bound to each route

EntryLine(r) ==
    CASE r = "/" -> "l38"
      [] r = "/healthz" -> "l45"
      [] r = "/failcheck" -> "l61"
      [] r = "/toggle-readiness" -> "l78_load"
      [] r = "/toggle-liveness" -> "l89_load"

\* The store counter a request on route r is measured against
Epoch(r) == IF r \in {"/failcheck", "/toggle-liveness"} THEN writesL ELSE writesR

\* A thread accepts a GET request for route r
request(t, r) ==
    /\ pc[t] = "idle"
    /\ requests < MaxRequests
    /\ requests' = requests + 1
    /\ pc' = [pc EXCEPT ![t] = EntryLine(r)]
    /\ path' = [path EXCEPT ![t] = r]
    /\ obs' = [obs EXCEPT ![t] = [NoObs EXCEPT !.from = Epoch(r)]]
    /\ UNCHANGED <<flags, stack, status, response, access_log, counters>>

\* log_request: writes one access-log line and returns the response unchanged
log_request(p, resp) == [path |-> p, status_code |-> resp.code]

\* The view returns resp: after_request logging runs, the response is sent
\* and the thread is free again.
Send(t, resp) ==
    /\ response' = [response EXCEPT ![t] =
                      [path |-> path[t], code |-> resp.code, body |-> resp.body,
                       hist |-> obs[t],
                       quiet |-> (obs[t].from = Epoch(path[t])),
                       at |-> Epoch(path[t])]]
    /\ access_log' = log_request(path[t], resp)
    /\ pc' = [pc EXCEPT ![t] = "idle"]
    /\ stack' = [stack EXCEPT ![t] = FALSE]
    /\ status' = [status EXCEPT ![t] = ""]
    /\ obs' = [obs EXCEPT ![t] = NoObs]
    /\ UNCHANGED <<path, requests>>

----------------------------------------------------------------------------
\* index: renders index.html, status 200

index(t) ==
    /\ pc[t] = "l38"
    /\ Send(t, [code |-> 200, body |-> [html |-> "index.html", app_status |-> "Running"]])
    /\ UNCHANGED <<flags, counters>>

----------------------------------------------------------------------------
\* readiness_probe

readiness_response_swapped(ready) ==
    IF ready
    THEN [code |-> 503, body |-> [status |-> "ready",
                                  message |-> "Application is ready to serve traffic"]]
    ELSE [code |-> 200, body |-> [status |-> "not ready",
                                  message |-> "Application is not ready to serve traffic"]]

\* The two branches of "if app_ready:" (lines 46-56)
readiness_response(ready) ==
    IF ready
    THEN [code |-> 200, body |-> [status |-> "ready",
                                  message |-> "Application is ready to serve traffic"]]
    ELSE [code |-> 503, body |-> [status |-> "not ready",
                                  message |-> "Application is not ready to serve traffic"]]

\* line 45: load app_ready for the test
readiness_probe_read(t) ==
    /\ pc[t] = "l45"
    /\ stack' = [stack EXCEPT ![t] = app_ready]
    /\ obs' = [obs EXCEPT ![t].read = app_ready,
                          ![t].seen = lastR.valid,
                          ![t].seenFlag = lastR.flag]
    /\ pc' = [pc EXCEPT ![t] = "l46"]
    /\ UNCHANGED <<flags, path, status, response, access_log, requests, counters>>

readiness_probe_return_mixed(t) ==
    /\ pc[t] = "l46"
    /\ Send(t, [code |-> readiness_response(stack[t]).code,
                body |-> readiness_response(app_ready).body])
    /\ UNCHANGED <<flags, counters>>

readiness_probe_return_dirty(t) ==
    /\ pc[t] = "l46"
    /\ Send(t, readiness_response(stack[t]))
    /\ app_ready' = TRUE
    /\ UNCHANGED <<app_alive, counters>>

\* lines 46-56: build the response of the branch taken
readiness_probe_return(t) ==
    /\ pc[t] = "l46"
    /\ Send(t, readiness_response(stack[t]))
    /\ UNCHANGED <<flags, counters>>

----------------------------------------------------------------------------
\* liveness_probe

liveness_response_503(alive) ==
    IF alive
    THEN [code |-> 200, body |-> [status |-> "alive",
                                  message |-> "Application is alive and healthy"]]
    ELSE [code |-> 503, body |-> [status |-> "dead",
                                  message |-> "Application is not responding properly"]]

\* The two branches of "if app_alive:" (lines 62-72)
liveness_response(alive) ==
    IF alive
    THEN [code |-> 200, body |-> [status |-> "alive",
                                  message |-> "Application is alive and healthy"]]
    ELSE [code |-> 500, body |-> [status |-> "dead",
                                  message |-> "Application is not responding properly"]]

\* line 61: load app_alive for the test
liveness_probe_read(t) ==
    /\ pc[t] = "l61"
    /\ stack' = [stack EXCEPT ![t] = app_alive]
    /\ obs' = [obs EXCEPT ![t].read = app_alive,
                          ![t].seen = lastL.valid,
                          ![t].seenFlag = lastL.flag]
    /\ pc' = [pc EXCEPT ![t] = "l62"]
    /\ UNCHANGED <<flags, path, status, response, access_log, requests, counters>>

\* lines 62-72: build the response of the branch taken
liveness_probe_return(t) ==
    /\ pc[t] = "l62"
    /\ Send(t, liveness_response(stack[t]))
    /\ UNCHANGED <<flags, counters>>

----------------------------------------------------------------------------
\* toggle_readiness

\* line 78, right-hand side: load app_ready
toggle_readiness_load(t) ==
    /\ pc[t] = "l78_load"
    /\ stack' = [stack EXCEPT ![t] = app_ready]
    /\ pc' = [pc EXCEPT ![t] = "l78_store"]
    /\ UNCHANGED <<flags, path, status, response, access_log, requests, counters, obs>>

toggle_readiness_store_clear(t) ==
    /\ pc[t] = "l78_store"
    /\ app_ready' = FALSE
    /\ writesR' = writesR + 1
    /\ lastR' = NoLast
    /\ obs' = [obs EXCEPT ![t].wrote = FALSE]
    /\ pc' = [pc EXCEPT ![t] = "l79"]
    /\ UNCHANGED <<app_alive, path, stack, status, response, access_log, requests,
                   togglesR, togglesL, writesL, lastL>>

\* line 78, left-hand side: store the negation of the loaded value
toggle_readiness_store(t) ==
    /\ pc[t] = "l78_store"
    /\ app_ready' = ~stack[t]
    /\ writesR' = writesR + 1
    /\ lastR' = NoLast
    /\ obs' = [obs EXCEPT ![t].wrote = ~stack[t]]
    /\ pc' = [pc EXCEPT ![t] = "l79"]
    /\ UNCHANGED <<app_alive, path, stack, status, response, access_log, requests,
                   togglesR, togglesL, writesL, lastL>>

\* line 79: status = "ready" if app_ready else "not ready"
toggle_readiness_status(t) ==
    /\ pc[t] = "l79"
    /\ status' = [status EXCEPT ![t] = IF app_ready THEN "ready" ELSE "not ready"]
    /\ pc' = [pc EXCEPT ![t] = "l80"]
    /\ UNCHANGED <<flags, path, stack, response, access_log, requests, counters, obs>>

toggle_readiness_return_old(t) ==
    /\ pc[t] = "l80"
    /\ Send(t, [code |-> 200,
                body |-> [message |-> "Readiness toggled to: " \o status[t],
                          ready |-> ~app_ready]])
    /\ togglesR' = togglesR + 1
    /\ lastR' = [valid |-> TRUE, flag |-> ~app_ready]
    /\ UNCHANGED <<flags, togglesL, writesR, writesL, lastL>>

\* lines 80-83: jsonify the message and the current app_ready, default status 200
toggle_readiness_return(t) ==
    /\ pc[t] = "l80"
    /\ Send(t, [code |-> 200,
                body |-> [message |-> "Readiness toggled to: " \o status[t],
                          ready |-> app_ready]])
    /\ togglesR' = togglesR + 1
    /\ lastR' = [valid |-> TRUE, flag |-> app_ready]
    /\ UNCHANGED <<flags, togglesL, writesR, writesL, lastL>>

----------------------------------------------------------------------------
\* toggle_liveness

\* line 89, right-hand side: load app_alive
toggle_liveness_load(t) ==
    /\ pc[t] = "l89_load"
    /\ stack' = [stack EXCEPT ![t] = app_alive]
    /\ pc' = [pc EXCEPT ![t] = "l89_store"]
    /\ UNCHANGED <<flags, path, status, response, access_log, requests, counters, obs>>

toggle_liveness_store_both(t) ==
    /\ pc[t] = "l89_store"
    /\ app_alive' = ~stack[t]
    /\ app_ready' = ~stack[t]
    /\ writesL' = writesL + 1
    /\ lastL' = NoLast
    /\ obs' = [obs EXCEPT ![t].wrote = ~stack[t]]
    /\ pc' = [pc EXCEPT ![t] = "l90"]
    /\ UNCHANGED <<path, stack, status, response, access_log, requests,
                   togglesR, togglesL, writesR, lastR>>

\* line 89, left-hand side: store the negation of the loaded value
toggle_liveness_store(t) ==
    /\ pc[t] = "l89_store"
    /\ app_alive' = ~stack[t]
    /\ writesL' = writesL + 1
    /\ lastL' = NoLast
    /\ obs' = [obs EXCEPT ![t].wrote = ~stack[t]]
    /\ pc' = [pc EXCEPT ![t] = "l90"]
    /\ UNCHANGED <<app_ready, path, stack, status, response, access_log, requests,
                   togglesR, togglesL, writesR, lastR>>

\* line 90: status = "alive" if app_alive else "dead"
toggle_liveness_status(t) ==
    /\ pc[t] = "l90"
    /\ status' = [status EXCEPT ![t] = IF app_alive THEN "alive" ELSE "dead"]
    /\ pc' = [pc EXCEPT ![t] = "l91"]
    /\ UNCHANGED <<flags, path, stack, response, access_log, requests, counters, obs>>

\* lines 91-94: jsonify the message and the current app_alive, default status 200
toggle_liveness_return(t) ==
    /\ pc[t] = "l91"
    /\ Send(t, [code |-> 200,
                body |-> [message |-> "Liveness toggled to: " \o status[t],
                          alive |-> app_alive]])
    /\ togglesL' = togglesL + 1
    /\ lastL' = [valid |-> TRUE, flag |-> app_alive]
    /\ UNCHANGED <<flags, togglesR, writesR, writesL, lastR>>

----------------------------------------------------------------------------
\* Specifications

\* Threaded server: the steps of the requests in flight interleave freely
Next ==
    \E t \in Threads :
        \/ \E r \in Routes : request(t, r)
        \/ index(t)
        \/ readiness_probe_read(t)
        \/ readiness_probe_return(t)
        \/ liveness_probe_read(t)
        \/ liveness_probe_return(t)
        \/ toggle_readiness_load(t)
        \/ toggle_readiness_store(t)
        \/ toggle_readiness_status(t)
        \/ toggle_readiness_return(t)
        \/ toggle_liveness_load(t)
        \/ toggle_liveness_store(t)
        \/ toggle_liveness_status(t)
        \/ toggle_liveness_return(t)

Spec == Init /\ [][Next]_vars

\* No request is in flight
Quiescent == \A t \in Threads : pc[t] = "idle"

\* Requests one after another: a request is accepted only when none is in flight
SeqNext ==
    \E t \in Threads :
        \/ \E r \in Routes : Quiescent /\ request(t, r)
        \/ index(t)
        \/ readiness_probe_read(t)
        \/ readiness_probe_return(t)
        \/ liveness_probe_read(t)
        \/ liveness_probe_return(t)
        \/ toggle_readiness_load(t)
        \/ toggle_readiness_store(t)
        \/ toggle_readiness_status(t)
        \/ toggle_readiness_return(t)
        \/ toggle_liveness_load(t)
        \/ toggle_liveness_store(t)
        \/ toggle_liveness_status(t)
        \/ toggle_liveness_return(t)

SeqSpec == Init /\ [][SeqNext]_vars

----------------------------------------------------------------------------
\* Properties

RECURSIVE NegateTimes(_, _)
NegateTimes(b, k) == IF k = 0 THEN b ELSE NegateTimes(~b, k - 1)

\* C1: every /healthz response is 200 with status "ready" exactly when the value
\* of app_ready the handler read was true, and 503 with status "not ready"
\* otherwise; /healthz produces no other status code or status string.
C1_HealthzReflectsReadFlag ==
    \A t \in Threads :
        response[t].path = "/healthz" =>
            \/ /\ response[t].hist.read
               /\ response[t].code = 200
               /\ response[t].body.status = "ready"
            \/ /\ ~response[t].hist.read
               /\ response[t].code = 503
               /\ response[t].body.status = "not ready"

\* A /healthz answered 503 from a read made before a later toggle set the flag back
C1_Witness ==
    \E t \in Threads :
        /\ response[t].path = "/healthz"
        /\ response[t].code = 503
        /\ app_ready
        /\ writesR = 2

\* C2: every /failcheck response is 200 with status "alive" exactly when the
\* value of app_alive the handler read was true, and 500 with status "dead"
\* otherwise; /failcheck produces no other status code or status string.
C2_FailcheckReflectsReadFlag ==
    \A t \in Threads :
        response[t].path = "/failcheck" =>
            \/ /\ response[t].hist.read
               /\ response[t].code = 200
               /\ response[t].body.status = "alive"
            \/ /\ ~response[t].hist.read
               /\ response[t].code = 500
               /\ response[t].body.status = "dead"

C2_Witness ==
    \E t \in Threads :
        /\ response[t].path = "/failcheck"
        /\ response[t].code = 500
        /\ response[t].body.status = "dead"
        /\ writesL = 1

\* C3: with requests served one after another, after n completed
\* /toggle-readiness requests (and any other requests in between) app_ready is
\* the negation of its initial value when n is odd and its initial value when
\* n is even.
C3_ParityOfToggles ==
    Quiescent =>
        app_ready = (IF togglesR % 2 = 1 THEN ~InitialReady ELSE InitialReady)

\* Two readiness toggles with a liveness toggle in between
C3_Witness ==
    /\ Quiescent
    /\ togglesR = 2
    /\ togglesL = 1
    /\ app_ready = InitialReady

\* C4: a step of a /toggle-readiness request leaves app_alive unchanged and a
\* step of a /toggle-liveness request leaves app_ready unchanged.
C4_FlagsIndependent ==
    [][\A t \in Threads :
          /\ (path'[t] = "/toggle-readiness" /\ pc'[t] # pc[t]) => app_alive' = app_alive
          /\ (path'[t] = "/toggle-liveness" /\ pc'[t] # pc[t]) => app_ready' = app_ready]_vars

\* Liveness flipped twice and readiness once: the flags differ
C4_Witness ==
    /\ writesR = 1
    /\ writesL = 2
    /\ ~app_ready
    /\ app_alive

\* C5: a toggle responds 200; as long as no later store to its flag happened
\* the flag has the value the response carries; and a probe that reads the flag
\* while that response stands answers with the matching code and status.
C5_ProbeAgreesWithToggle ==
    /\ \A t \in Threads :
          response[t].path \in {"/toggle-readiness", "/toggle-liveness"} =>
              response[t].code = 200
    /\ lastR.valid => lastR.flag = app_ready
    /\ lastL.valid => lastL.flag = app_alive
    /\ \A t \in Threads :
          (response[t].path = "/healthz" /\ response[t].hist.seen) =>
              /\ response[t].code = (IF response[t].hist.seenFlag THEN 200 ELSE 503)
              /\ response[t].body.status =
                     (IF response[t].hist.seenFlag THEN "ready" ELSE "not ready")
    /\ \A t \in Threads :
          (response[t].path = "/failcheck" /\ response[t].hist.seen) =>
              /\ response[t].code = (IF response[t].hist.seenFlag THEN 200 ELSE 500)
              /\ response[t].body.status =
                     (IF response[t].hist.seenFlag THEN "alive" ELSE "dead")

\* A /healthz that followed a toggle response carrying ready = false
C5_Witness ==
    \E t \in Threads :
        /\ response[t].path = "/healthz"
        /\ response[t].hist.seen
        /\ ~response[t].hist.seenFlag
        /\ response[t].code = 503

\* C6: once k /toggle-readiness requests have completed and none is in flight,
\* app_ready is its initial value negated k times; likewise app_alive.
C6_NoToggleLost ==
    Quiescent =>
        /\ app_ready = NegateTimes(InitialReady, togglesR)
        /\ app_alive = NegateTimes(InitialAlive, togglesL)

\* C7: as long as no toggle has stored to a flag, both flags are true, every
\* /healthz response is 200 "ready" and every /failcheck response 200 "alive".
C7_FreshProcessHealthy ==
    (writesR = 0 /\ writesL = 0) =>
        /\ app_ready
        /\ app_alive
        /\ \A t \in Threads :
              /\ response[t].path = "/healthz" =>
                    response[t].code = 200 /\ response[t].body.status = "ready"
              /\ response[t].path = "/failcheck" =>
                    response[t].code = 200 /\ response[t].body.status = "alive"

\* Both probes answered after an index request, no toggle yet
C7_Witness ==
    /\ writesR = 0
    /\ writesL = 0
    /\ requests = 3
    /\ \E t \in Threads : response[t].path = "/healthz"
    /\ \E t \in Threads : response[t].path = "/failcheck"

\* C8: a step of a /, /healthz or /failcheck request, logging included, leaves
\* both flags unchanged; app_ready changes only in the store of a
\* /toggle-readiness request and app_alive only in the store of a
\* /toggle-liveness request.
C8_OnlyTogglesWrite ==
    [][/\ \A t \in Threads :
            (path'[t] \in {"/", "/healthz", "/failcheck"} /\ pc'[t] # pc[t]) =>
                (app_ready' = app_ready /\ app_alive' = app_alive)
       /\ app_ready' # app_ready =>
            \E t \in Threads : /\ path[t] = "/toggle-readiness"
                                /\ pc[t] = "l78_store"
                                /\ pc'[t] = "l79"
       /\ app_alive' # app_alive =>
            \E t \in Threads : /\ path[t] = "/toggle-liveness"
                                /\ pc[t] = "l89_store"
                                /\ pc'[t] = "l90"]_vars

\* A /healthz served and logged while the flag is false
C8_Witness ==
    /\ access_log.path = "/healthz"
    /\ access_log.status_code = 503
    /\ ~app_ready
    /\ app_alive

\* C9: in every toggle response the message names "ready" ("alive") exactly
\* when the ready (alive) field is true, and the field is the value this
\* request stored.
C9_ToggleResponseOwnFlip ==
    \A t \in Threads :
        /\ response[t].path = "/toggle-readiness" =>
              /\ response[t].body.message =
                     (IF response[t].body.ready THEN "Readiness toggled to: ready"
                                                ELSE "Readiness toggled to: not ready")
              /\ response[t].body.ready = response[t].hist.wrote
        /\ response[t].path = "/toggle-liveness" =>
              /\ response[t].body.message =
                     (IF response[t].body.alive THEN "Liveness toggled to: alive"
                                                ELSE "Liveness toggled to: dead")
              /\ response[t].body.alive = response[t].hist.wrote

\* C10: every /healthz response is one of (200, "ready"), (503, "not ready"),
\* also with toggles in flight; and /healthz responses whose requests ran with
\* no store to app_ready from the first one's start to the last one's end
\* carry the same status code.
C10_ConcurrentProbesValid ==
    /\ \A t \in Threads :
          response[t].path = "/healthz" =>
              <<response[t].code, response[t].body.status>> \in
                  {<<200, "ready">>, <<503, "not ready">>}
    /\ \A t, u \in Threads :
          ( /\ response[t].path = "/healthz"
            /\ response[u].path = "/healthz"
            /\ response[t].quiet
            /\ response[u].quiet
            /\ response[t].at = response[u].at ) =>
              response[t].code = response[u].code

\* Two /healthz responses from the same toggle-free window after one toggle
C10_Witness ==
    \E t, u \in Threads :
        /\ t # u
        /\ response[t].path = "/healthz"
        /\ response[u].path = "/healthz"
        /\ response[t].quiet
        /\ response[u].quiet
        /\ response[t].at = 1
        /\ response[u].at = 1
        /\ response[t].code = 503

====
